---------------------------- MODULE Spec2Model ----------------------------
(***************************************************************************)
(* nlmortgage.py: monthly schedules of annuity and linear mortgages, of    *)
(* the appreciating value of the house and of its overhead costs.          *)
(*                                                                         *)
(* The program computes in Python floats and numpy float64, that is IEEE   *)
(* 754 binary64 with round-to-nearest-even.  The model keeps that          *)
(* arithmetic: a float is sgn * m * 2^e with a 53 bit mantissa m held as   *)
(* an arbitrary-precision natural (a little-endian sequence of limbs), and *)
(* every operation of the source rounds its exact result as the hardware   *)
(* does.  pow() is taken as correctly rounded.                             *)
(***************************************************************************)
EXTENDS Integers, Sequences, FiniteSets, TLC

(***************************************************************************)
(* Every function of the program, and every float operation, is entered    *)
(* through Call(f, a): f names it and a is the tuple of its arguments.     *)
(* Call is defined after the functions it dispatches to.                   *)
(***************************************************************************)
RECURSIVE Call(_, _)

\* a + b, a - b (for a >= b), a * b, a * 2^k, floor(a / 2^k) and a^n of
\* arbitrary-precision naturals

BAdd(a, b) == Call("BigAdd", << a, b >>)

BSub(a, b) == Call("BigSub", << a, b >>)

BMul(a, b) == Call("BigMul", << a, b >>)

BShl(a, k) == Call("BigShl", << a, k >>)

BShr(a, k) == Call("BigShr", << a, k >>)

BPow(a, n) == Call("BigPow", << a, n >>)

(***************************************************************************)
(* Arbitrary-precision naturals: <<l1, ..., ln>> is the sum of             *)
(* l_i * LimbBase^(i-1), with no leading zero limb; zero is << >>.         *)
(***************************************************************************)
LimbBits == 15

LimbBase == 2 ^ LimbBits

\* the index of the highest non-zero limb of a, 0 when there is none
BTop(a) ==
    LET nz == {i \in 1..Len(a) : a[i] # 0}
    IN  IF nz = {} THEN 0 ELSE CHOOSE i \in nz : \A j \in nz : j <= i

BTrim(a) == SubSeq(a, 1, BTop(a))

RECURSIVE BFromInt(_)
BFromInt(n) ==
    IF n = 0 THEN << >> ELSE << n % LimbBase >> \o BFromInt(n \div LimbBase)

BLimb(a, i) == IF i >= 1 /\ i <= Len(a) THEN a[i] ELSE 0

BMaxLen(a, b) == IF Len(a) >= Len(b) THEN Len(a) ELSE Len(b)

\* Limbs lo..hi of a + b with the carry c coming in: << limbs, carry out >>.
\* The range is halved rather than walked, which keeps the evaluation shallow.
RECURSIVE BAddRange(_, _, _, _, _)
BAddRange(a, b, lo, hi, c) ==
    IF lo = hi
    THEN LET t == BLimb(a, lo) + BLimb(b, lo) + c
         IN  << << t % LimbBase >>, t \div LimbBase >>
    ELSE LET mid == (lo + hi) \div 2
             L   == BAddRange(a, b, lo, mid, c)
             U   == BAddRange(a, b, mid + 1, hi, L[2])
         IN  << L[1] \o U[1], U[2] >>

BigAdd(a, b) ==
    IF a = << >> THEN b
    ELSE IF b = << >> THEN a
    ELSE LET r == BAddRange(a, b, 1, BMaxLen(a, b), 0)
         IN  IF r[2] > 0 THEN Append(r[1], r[2]) ELSE r[1]

RECURSIVE BSubRange(_, _, _, _, _)
BSubRange(a, b, lo, hi, c) ==
    IF lo = hi
    THEN LET t == a[lo] - BLimb(b, lo) - c
         IN  IF t < 0 THEN << << t + LimbBase >>, 1 >> ELSE << << t >>, 0 >>
    ELSE LET mid == (lo + hi) \div 2
             L   == BSubRange(a, b, lo, mid, c)
             U   == BSubRange(a, b, mid + 1, hi, L[2])
         IN  << L[1] \o U[1], U[2] >>

\* a - b for a >= b
BigSub(a, b) ==
    IF b = << >> THEN a ELSE BTrim(BSubRange(a, b, 1, Len(a), 0)[1])

\* -1, 0 or 1 as a < b, a = b or a > b
BCmp(a, b) ==
    IF Len(a) > Len(b) THEN 1
    ELSE IF Len(a) < Len(b) THEN -1
    ELSE LET df == {i \in 1..Len(a) : a[i] # b[i]}
         IN  IF df = {} THEN 0
             ELSE LET i == CHOOSE i \in df : \A j \in df : j <= i
                  IN  IF a[i] > b[i] THEN 1 ELSE -1

RECURSIVE BMulSmallRange(_, _, _, _, _)
BMulSmallRange(a, d, lo, hi, c) ==
    IF lo = hi
    THEN LET t == a[lo] * d + c
         IN  << << t % LimbBase >>, t \div LimbBase >>
    ELSE LET mid == (lo + hi) \div 2
             L   == BMulSmallRange(a, d, lo, mid, c)
             U   == BMulSmallRange(a, d, mid + 1, hi, L[2])
         IN  << L[1] \o U[1], U[2] >>

\* a * d for a limb-sized d
BMulSmall(a, d) ==
    IF d = 0 \/ a = << >> THEN << >>
    ELSE LET r == BMulSmallRange(a, d, 1, Len(a), 0)
         IN  IF r[2] > 0 THEN Append(r[1], r[2]) ELSE r[1]

BShiftLimbs(a, k) == IF a = << >> THEN << >> ELSE [i \in 1..k |-> 0] \o a

\* a * (limbs lo..hi of b)
RECURSIVE BMulRange(_, _, _, _)
BMulRange(a, b, lo, hi) ==
    IF lo = hi THEN BMulSmall(a, b[lo])
    ELSE LET mid == (lo + hi) \div 2
         IN  BAdd(BMulRange(a, b, lo, mid),
                  BShiftLimbs(BMulRange(a, b, mid + 1, hi), mid + 1 - lo))

BigMul(a, b) ==
    IF a = << >> \/ b = << >> THEN << >>
    ELSE IF Len(a) >= Len(b) THEN BMulRange(a, b, 1, Len(b))
    ELSE BMulRange(b, a, 1, Len(a))

\* a * 2^k
BigShl(a, k) == BShiftLimbs(BMulSmall(a, 2 ^ (k % LimbBits)), k \div LimbBits)

\* floor(a / 2^k)
BigShr(a, k) ==
    LET q == k \div LimbBits
        r == k % LimbBits
        n == Len(a) - q
    IN  IF n <= 0 THEN << >>
        ELSE BTrim([i \in 1..n |->
                 (a[i + q] \div (2 ^ r))
                 + (BLimb(a, i + q + 1) % (2 ^ r)) * (2 ^ (LimbBits - r))])

IntBitLen(n) ==
    CHOOSE k \in 0..LimbBits : n < 2 ^ k /\ (k = 0 \/ n >= 2 ^ (k - 1))

BBitLen(a) ==
    IF a = << >> THEN 0 ELSE LimbBits * (Len(a) - 1) + IntBitLen(a[Len(a)])

\* bit k (0 is the lowest) of a
BBit(a, k) == (BLimb(a, (k \div LimbBits) + 1) \div (2 ^ (k % LimbBits))) % 2

\* whether any of the k lowest bits of a is set
BLowBits(a, k) ==
    \/ \E i \in 1..(k \div LimbBits) : BLimb(a, i) # 0
    \/ BLimb(a, (k \div LimbBits) + 1) % (2 ^ (k % LimbBits)) # 0

BIsOdd(a) == BLimb(a, 1) % 2 = 1

BigPow(a, n) ==
    IF n = 0 THEN << 1 >>
    ELSE IF n = 1 THEN a
    ELSE LET p == BPow(a, n \div 2)
         IN  IF n % 2 = 0 THEN BMul(p, p) ELSE BMul(BMul(p, p), a)

(***************************************************************************)
(* IEEE 754 binary64.  A finite float is [k |-> "fin", sgn, m, e] of value *)
(* sgn * m * 2^e, where m = 0 (and sgn = 1, e = 0) or 2^52 <= m < 2^53.    *)
(* Division by zero in numpy gives [k |-> "inf"] or [k |-> "nan"].         *)
(***************************************************************************)
MantBits == 53

Zero == [k |-> "fin", sgn |-> 1, m |-> << >>, e |-> 0]

Inf(s) == [k |-> "inf", sgn |-> s, m |-> << >>, e |-> 0]

NaN == [k |-> "nan", sgn |-> 1, m |-> << >>, e |-> 0]

IsZero(x) == x.k = "fin" /\ x.m = << >>

\* The float nearest to sgn * (n + d) * 2^e, where 0 <= d < 1 and d > 0 iff
\* sticky; ties go to the even mantissa.
RoundF(sgn, n, e, sticky) ==
    LET sh == BBitLen(n) - MantBits
    IN  IF n = << >> THEN Zero
        ELSE IF sh <= 0
        THEN [k |-> "fin", sgn |-> sgn, m |-> BShl(n, -sh), e |-> e + sh]
        ELSE LET q  == BShr(n, sh)
                 up == /\ BBit(n, sh - 1) = 1
                       /\ (sticky \/ BLowBits(n, sh - 1) \/ BIsOdd(q))
                 m1 == IF up THEN BAdd(q, << 1 >>) ELSE q
                 carry == IF BBitLen(m1) > MantBits THEN 1 ELSE 0
             IN  [k |-> "fin", sgn |-> sgn, m |-> BShr(m1, carry),
                  e |-> e + sh + carry]

Round(sgn, n, e, sticky) == Call("RoundF", << sgn, n, e, sticky >>)

\* int -> float
FromInt(n) ==
    Round(IF n < 0 THEN -1 ELSE 1, BFromInt(IF n < 0 THEN -n ELSE n), 0, FALSE)

Neg(x) == IF IsZero(x) \/ x.k = "nan" THEN x ELSE [x EXCEPT !.sgn = -x.sgn]

Abs(x) == [x EXCEPT !.sgn = 1]

MinInt(a, b) == IF a <= b THEN a ELSE b

\* The exact sum of two non-zero floats: << sign, magnitude, exponent >>.
ExactSum(x, y) ==
    LET e  == MinInt(x.e, y.e)
        nx == BShl(x.m, x.e - e)
        ny == BShl(y.m, y.e - e)
    IN  IF x.sgn = y.sgn THEN << x.sgn, BAdd(nx, ny), e >>
        ELSE IF BCmp(nx, ny) >= 0 THEN << x.sgn, BSub(nx, ny), e >>
        ELSE << y.sgn, BSub(ny, nx), e >>

\* x + y
FAdd(x, y) ==
    IF IsZero(x) THEN y
    ELSE IF IsZero(y) THEN x
    ELSE LET t == ExactSum(x, y)
         IN  Round(t[1], t[2], t[3], FALSE)

\* x * y
FMul(x, y) ==
    IF IsZero(x) \/ IsZero(y) THEN Zero
    ELSE Round(x.sgn * y.sgn, BMul(x.m, y.m), x.e + y.e, FALSE)

\* One quotient bit: qr = << q, r >> becomes << 2q + bit, 2(r - bit * d) >>.
DivStep(qr, d) ==
    IF BCmp(qr[2], d) >= 0
    THEN << BAdd(BShl(qr[1], 1), << 1 >>), BShl(BSub(qr[2], d), 1) >>
    ELSE << BShl(qr[1], 1), BShl(qr[2], 1) >>

\* j quotient bits.  From << 0, n >> with n < 2d, j steps leave
\* q = floor(n * 2^(j-1) / d), and r # 0 iff the division is inexact.
RECURSIVE DivBits(_, _, _)
DivBits(qr, d, j) ==
    IF j = 0 THEN qr
    ELSE IF j = 1 THEN DivStep(qr, d)
    ELSE LET h == DivBits(qr, d, j \div 2)
         IN  IF Len(h) = 2 THEN DivBits(h, d, j - (j \div 2)) ELSE h

\* x / y for y # 0
FDiv(x, y) ==
    IF IsZero(x) THEN Zero
    ELSE LET qr == DivBits(<< << >>, x.m >>, y.m, MantBits + 3)
         IN  Round(x.sgn * y.sgn, qr[1], x.e - y.e - (MantBits + 2), qr[2] # << >>)

PowSign(x, n) == IF x.sgn = -1 /\ n % 2 = 1 THEN -1 ELSE 1

\* x ** n for an integer n >= 0
FPow(x, n) ==
    IF n = 0 THEN FromInt(1)
    ELSE IF IsZero(x) THEN Zero
    ELSE Round(PowSign(x, n), BPow(x.m, n), x.e * n, FALSE)

\* The exact powers m^lo .. m^hi of a mantissa, given prev = m^(lo-1).
RECURSIVE BPowRange(_, _, _, _)
BPowRange(m, lo, hi, prev) ==
    IF lo = hi THEN << BMul(prev, m) >>
    ELSE LET mid == (lo + hi) \div 2
             L   == BPowRange(m, lo, mid, prev)
         IN  L \o BPowRange(m, mid + 1, hi, L[Len(L)])

\* x ** k for k = 0 .. n, as numpy raises one base to a range of integer
\* exponents: entry k + 1 is FPow(x, k).  The exact powers are shared.
FPowTable(x, n) ==
    IF n = 0 \/ IsZero(x) THEN [k \in 1..(n + 1) |-> FPow(x, k - 1)]
    ELSE LET exact == BPowRange(x.m, 1, n, << 1 >>)
         IN  << FromInt(1) >> \o
             [k \in 1..n |-> Round(PowSign(x, k), exact[k], x.e * k, FALSE)]

\* The operations as the functions below write them.
Float(n) == Call("FromInt", << n >>)

Add(x, y) == Call("FAdd", << x, y >>)

Sub(x, y) == Call("FAdd", << x, Neg(y) >>)

Mul(x, y) == Call("FMul", << x, y >>)

Div(x, y) == Call("FDiv", << x, y >>)

Pow(x, n) == Call("FPow", << x, n >>)

PowTable(x, n) == Call("FPowTable", << x, n >>)

\* the literal n/d of the source text, n and d exact
Lit(n, d) == Div(Float(n), Float(d))

\* -1, 0 or 1 as x < y, x = y or x > y
FCmp(x, y) ==
    LET d == Sub(x, y)
    IN  IF IsZero(d) THEN 0 ELSE d.sgn

FLt(x, y) == FCmp(x, y) < 0

FLe(x, y) == FCmp(x, y) <= 0

\* x / y in numpy: a zero divisor gives inf or nan (and a warning), no error
NpDiv(x, y) ==
    IF IsZero(y) THEN (IF IsZero(x) THEN NaN ELSE Inf(x.sgn)) ELSE Div(x, y)

IsFinite(x) == x.k = "fin"

(***************************************************************************)
(* The module constants.                                                   *)
(***************************************************************************)
INTEREST_DEDUCTIBLE == Sub(Float(1), Lit(64, 100))

YEARLY_INSURANCE == Lit(13, 10000)

YEARLY_VVE == Lit(5, 1000)

YEARLY_WOZ == Lit(577, 1000000)

MonthsPerYear == 12

(***************************************************************************)
(* What a call gives: a sequence of floats, or the exception that ends it. *)
(* Entry i of a Python sequence (from 0) is value[i + 1] here.             *)
(***************************************************************************)
Ok(seq) == [status |-> "ok", value |-> seq]

Raise(exc) == [status |-> exc, value |-> << >>]

(***************************************************************************)
(* numpy_financial, with when = 'end' and fv = 0 as the program calls it.  *)
(***************************************************************************)
\* npf.pmt(rate, nper, pv)
npf_pmt(rate, nper, pv) ==
    LET temp == Pow(Add(Float(1), rate), nper)
        fact == IF IsZero(rate) THEN Float(nper)
                ELSE Div(Sub(temp, Float(1)), rate)
    IN  Neg(NpDiv(Mul(pv, temp), fact))

\* npf.fv(rate, nper, pmt, pv) for one nper, temp being (1 + rate) ** nper
npf_fv(rate, nper, pmt, pv, temp) ==
    IF IsZero(rate) THEN Neg(Add(pv, Mul(pmt, Float(nper))))
    ELSE Sub(Mul(Neg(pv), temp),
              Mul(Div(pmt, rate), Sub(temp, Float(1))))

\* npf.ipmt(rate, per = [1, ..., nper], nper, pv): the interest portions
npf_ipmt(rate, nper, pv) ==
    LET total_pmt == npf_pmt(rate, nper, pv)
        temps == PowTable(Add(Float(1), rate), nper)
    IN  [per \in 1..nper |->
            Mul(npf_fv(rate, per - 1, total_pmt, pv, temps[per]), rate)]

\* npf.ppmt(rate, per = [1, ..., nper], nper, pv): the principal portions
npf_ppmt(rate, nper, pv) ==
    LET total == npf_pmt(rate, nper, pv)
        interest == npf_ipmt(rate, nper, pv)
    IN  [per \in 1..nper |-> Sub(total, interest[per])]

\* np.cumsum over entries lo..hi of p, after the running sum acc
RECURSIVE CumSumRange(_, _, _, _)
CumSumRange(p, lo, hi, acc) ==
    IF lo = hi THEN << Add(acc, p[lo]) >>
    ELSE LET mid == (lo + hi) \div 2
             L   == CumSumRange(p, lo, mid, acc)
         IN  L \o CumSumRange(p, mid + 1, hi, L[Len(L)])

np_cumsum(p) == IF p = << >> THEN << >> ELSE CumSumRange(p, 1, Len(p), Zero)

(***************************************************************************)
(* The schedule functions.                                                 *)
(***************************************************************************)
\* annuity_mortgage adding the deductible interest instead of taking it off
annuity_mortgage_adds_deductible(principal, interest_rate, years) ==
    LET monthly_rate == Div(interest_rate, Float(12))
        months == years * MonthsPerYear
        payment == npf_pmt(monthly_rate, months, Neg(principal))
        interest_payments == npf_ipmt(monthly_rate, months, Neg(principal))
    IN  Ok([i \in 1..months |->
              Add(payment, Mul(INTEREST_DEDUCTIBLE, interest_payments[i]))])

annuity_mortgage(principal, interest_rate, years) ==
    LET monthly_rate == Div(interest_rate, Float(12))
        months == years * MonthsPerYear
        payment == npf_pmt(monthly_rate, months, Neg(principal))
        bruto_payments == [i \in 1..months |-> payment]
        interest_payments == npf_ipmt(monthly_rate, months, Neg(principal))
        interest_deductible ==
            [i \in 1..months |-> Mul(INTEREST_DEDUCTIBLE, interest_payments[i])]
        net_payments ==
            [i \in 1..months |-> Sub(bruto_payments[i], interest_deductible[i])]
    IN  Ok(net_payments)

\* annuity_mortgage_remaining_principal passing pv = principal, not -principal
annuity_mortgage_remaining_principal_positive_pv(principal, interest_rate, years) ==
    LET monthly_rate == Div(interest_rate, Float(12))
        months == years * MonthsPerYear
        payment == npf_ppmt(monthly_rate, months, principal)
        cumsum == np_cumsum(payment)
    IN  Ok([i \in 1..months |-> Sub(principal, cumsum[i])])

annuity_mortgage_remaining_principal(principal, interest_rate, years) ==
    LET monthly_rate == Div(interest_rate, Float(12))
        months == years * MonthsPerYear
        payment == npf_ppmt(monthly_rate, months, Neg(principal))
        cumsum == np_cumsum(payment)
    IN  Ok([i \in 1..months |-> Sub(principal, cumsum[i])])

\* linear_mortgage_remaining_principal counting the months from 1
linear_mortgage_remaining_principal_from_one(principal, years) ==
    LET months == years * MonthsPerYear
        linear_payment == Div(principal, Float(months))
    IN  IF months = 0 THEN Raise("ZeroDivisionError")
        ELSE Ok([i \in 1..months |->
                    Sub(principal, Mul(linear_payment, Float(i)))])

linear_mortgage_remaining_principal(principal, years) ==
    LET months == years * MonthsPerYear
        linear_payment == Div(principal, Float(months))
    IN  IF months = 0 THEN Raise("ZeroDivisionError")
        ELSE Ok([i \in 1..months |->
                    Sub(principal, Mul(linear_payment, Float(i - 1)))])

\* linear_mortgage charging the yearly rate every month
linear_mortgage_yearly_rate(principal, interest_rate, years) ==
    LET months == years * MonthsPerYear
        linear_payment == Div(principal, Float(months))
        remaining_principal ==
            linear_mortgage_remaining_principal(principal, years).value
        interest_payments ==
            [i \in 1..months |-> Mul(remaining_principal[i], interest_rate)]
    IN  IF months = 0 THEN Raise("ZeroDivisionError")
        ELSE Ok([i \in 1..months |->
                    Sub(Add(linear_payment, interest_payments[i]),
                         Mul(INTEREST_DEDUCTIBLE, interest_payments[i]))])

linear_mortgage(principal, interest_rate, years) ==
    LET monthly_rate == Div(interest_rate, Float(12))
        months == years * MonthsPerYear
        linear_payment == Div(principal, Float(months))
        remaining_principal ==
            linear_mortgage_remaining_principal(principal, years).value
        interest_payments ==
            [i \in 1..months |-> Mul(remaining_principal[i], monthly_rate)]
        interest_deductible ==
            [i \in 1..months |-> Mul(INTEREST_DEDUCTIBLE, interest_payments[i])]
        net_payments ==
            [i \in 1..months |->
                Sub(Add(linear_payment, interest_payments[i]),
                     interest_deductible[i])]
    IN  IF months = 0 THEN Raise("ZeroDivisionError") ELSE Ok(net_payments)

\* monthly_asset_appreciation compounding from month 1 on, not from month 0
monthly_asset_appreciation_from_one(initial_asset_value, months, yearly_asset_appreciation) ==
    LET monthly == Div(yearly_asset_appreciation, Float(12))
        powers  == PowTable(Add(Float(1), monthly), months)
    IN  Ok([i \in 1..months |-> Mul(initial_asset_value, powers[i + 1])])

monthly_asset_appreciation(initial_asset_value, months, yearly_asset_appreciation) ==
    LET monthly == Div(yearly_asset_appreciation, Float(12))
        powers  == IF months = 0 THEN << >>
                   ELSE PowTable(Add(Float(1), monthly), months - 1)
    IN  Ok([i \in 1..months |-> Mul(initial_asset_value, powers[i])])

\* asset_appreciation passing the years on as the number of months
asset_appreciation_in_years(initial_asset_value, yearly_asset_appreciation, years) ==
    monthly_asset_appreciation(initial_asset_value, years,
                               yearly_asset_appreciation)

asset_appreciation(initial_asset_value, yearly_asset_appreciation, years) ==
    LET months == years * MonthsPerYear
    IN  monthly_asset_appreciation(initial_asset_value, months,
                                   yearly_asset_appreciation)

\* overhead_costs charging the yearly WOZ tax every month
overhead_costs_yearly_woz(initial_asset_value, yearly_asset_appreciation, years) ==
    LET house_value_per_month ==
            asset_appreciation(initial_asset_value, yearly_asset_appreciation,
                               years).value
        n == Len(house_value_per_month)
        insurance_rate == Div(YEARLY_INSURANCE, Float(12))
        vve_rate == Div(YEARLY_VVE, Float(12))
    IN  Ok([i \in 1..n |->
              Add(Add(Mul(house_value_per_month[i], insurance_rate),
                      Mul(house_value_per_month[i], vve_rate)),
                  Mul(house_value_per_month[i], YEARLY_WOZ))])

overhead_costs(initial_asset_value, yearly_asset_appreciation, years) ==
    LET house_value_per_month ==
            asset_appreciation(initial_asset_value, yearly_asset_appreciation,
                               years).value
        n == Len(house_value_per_month)
        insurance_rate == Div(YEARLY_INSURANCE, Float(12))
        vve_rate == Div(YEARLY_VVE, Float(12))
        woz_rate == Div(YEARLY_WOZ, Float(12))
        monthly_insurance ==
            [i \in 1..n |-> Mul(house_value_per_month[i], insurance_rate)]
        monthly_vve == [i \in 1..n |-> Mul(house_value_per_month[i], vve_rate)]
        monthly_woz == [i \in 1..n |-> Mul(house_value_per_month[i], woz_rate)]
    IN  Ok([i \in 1..n |->
              Add(Add(monthly_insurance[i], monthly_vve[i]), monthly_woz[i])])

(***************************************************************************)
(* The Mortgage classes.  An instance holds the three constructor          *)
(* arguments; kind tells LinearMortgage from AnnuityMortgage.              *)
(***************************************************************************)
\* Mortgage.__init__ storing the number of months as years
Mortgage_init_in_months(kind, principal, interest_rate, years) ==
    [kind |-> kind, principal |-> principal, interest_rate |-> interest_rate,
     years |-> years * MonthsPerYear]

Mortgage_init(kind, principal, interest_rate, years) ==
    [kind |-> kind, principal |-> principal, interest_rate |-> interest_rate,
     years |-> years]

LinearMortgage_monthly_payment(self) ==
    linear_mortgage(self.principal, self.interest_rate, self.years)

LinearMortgage_remaining_principal(self) ==
    linear_mortgage_remaining_principal(self.principal, self.years)

AnnuityMortgage_monthly_payment(self) ==
    annuity_mortgage(self.principal, self.interest_rate, self.years)

AnnuityMortgage_remaining_principal(self) ==
    annuity_mortgage_remaining_principal(self.principal, self.interest_rate,
                                         self.years)

(***************************************************************************)
(* The dispatch: a call of the function named f with the arguments a.      *)
(***************************************************************************)
Call(f, a) ==
    CASE f = "BigAdd" -> BigAdd(a[1], a[2])
      [] f = "BigSub" -> BigSub(a[1], a[2])
      [] f = "BigMul" -> BigMul(a[1], a[2])
      [] f = "BigShl" -> BigShl(a[1], a[2])
      [] f = "BigShr" -> BigShr(a[1], a[2])
      [] f = "BigPow" -> BigPow(a[1], a[2])
      [] f = "RoundF" -> RoundF(a[1], a[2], a[3], a[4])
      [] f = "FromInt" -> FromInt(a[1])
      [] f = "FAdd" -> FAdd(a[1], a[2])
      [] f = "FMul" -> FMul(a[1], a[2])
      [] f = "FDiv" -> FDiv(a[1], a[2])
      [] f = "FPow" -> FPow(a[1], a[2])
      [] f = "FPowTable" -> FPowTable(a[1], a[2])
      [] f = "annuity_mortgage" -> annuity_mortgage(a[1], a[2], a[3])
      [] f = "annuity_mortgage_remaining_principal" ->
             annuity_mortgage_remaining_principal(a[1], a[2], a[3])
      [] f = "linear_mortgage" -> linear_mortgage(a[1], a[2], a[3])
      [] f = "linear_mortgage_remaining_principal" ->
             linear_mortgage_remaining_principal(a[1], a[2])
      [] f = "overhead_costs" -> overhead_costs(a[1], a[2], a[3])
      [] f = "asset_appreciation" -> asset_appreciation(a[1], a[2], a[3])
      [] f = "LinearMortgage.monthly_payment" ->
             LinearMortgage_monthly_payment(a[1])
      [] f = "LinearMortgage.remaining_principal" ->
             LinearMortgage_remaining_principal(a[1])
      [] f = "AnnuityMortgage.monthly_payment" ->
             AnnuityMortgage_monthly_payment(a[1])
      [] f = "AnnuityMortgage.remaining_principal" ->
             AnnuityMortgage_remaining_principal(a[1])

(***************************************************************************)
(* The inputs a caller passes.                                             *)
(***************************************************************************)
MaxYears == 2

Years == 0..MaxYears

Principals == {Float(n) : n \in {120000, 100000, 0, -100000}}

InterestRates == {Zero, Lit(4, 100)}

AssetValues == {Float(n) : n \in {400000, 250000}}

AppreciationRates == {Zero, Lit(5, 100)}

NoObject == [kind |-> "none"]

NoArgs == [none |-> TRUE]

NoReturn == [status |-> "none", value |-> << >>]

(***************************************************************************)
(* A caller of the module: it calls one of the schedule functions, or      *)
(* constructs a mortgage and calls its methods, and takes what comes back. *)
(*   op    the function or method called last ("none": nothing pending)    *)
(*   args  the arguments of that call                                      *)
(*   ret   what the call gave: Ok(sequence) or Raise(exception)            *)
(*   obj   the mortgage instance alive, or NoObject                        *)
(*   ctor  the arguments obj was constructed from                          *)
(***************************************************************************)
VARIABLES op, args, ret, obj, ctor

vars == << op, args, ret, obj, ctor >>

Init ==
    /\ op = "none"
    /\ args = NoArgs
    /\ ret = NoReturn
    /\ obj = NoObject
    /\ ctor = NoArgs

Idle == op = "none" /\ obj = NoObject

MortgageArgs(principal, interest_rate, years) ==
    [principal |-> principal, interest_rate |-> interest_rate, years |-> years]

AssetArgs(initial_asset_value, yearly_asset_appreciation, years) ==
    [initial_asset_value |-> initial_asset_value,
     yearly_asset_appreciation |-> yearly_asset_appreciation, years |-> years]

CallAnnuityMortgage ==
    /\ Idle
    /\ \E principal \in Principals, interest_rate \in InterestRates, years \in Years :
          /\ op' = "annuity_mortgage"
          /\ args' = MortgageArgs(principal, interest_rate, years)
          /\ ret' = Call("annuity_mortgage", << principal, interest_rate, years >>)
    /\ UNCHANGED << obj, ctor >>

CallAnnuityRemainingPrincipal ==
    /\ Idle
    /\ \E principal \in Principals, interest_rate \in InterestRates, years \in Years :
          /\ op' = "annuity_mortgage_remaining_principal"
          /\ args' = MortgageArgs(principal, interest_rate, years)
          /\ ret' = Call("annuity_mortgage_remaining_principal",
                        << principal, interest_rate, years >>)
    /\ UNCHANGED << obj, ctor >>

CallLinearMortgage ==
    /\ Idle
    /\ \E principal \in Principals, interest_rate \in InterestRates, years \in Years :
          /\ op' = "linear_mortgage"
          /\ args' = MortgageArgs(principal, interest_rate, years)
          /\ ret' = Call("linear_mortgage", << principal, interest_rate, years >>)
    /\ UNCHANGED << obj, ctor >>

CallLinearRemainingPrincipal ==
    /\ Idle
    /\ \E principal \in Principals, years \in Years :
          /\ op' = "linear_mortgage_remaining_principal"
          /\ args' = [principal |-> principal, years |-> years]
          /\ ret' = Call("linear_mortgage_remaining_principal", << principal, years >>)
    /\ UNCHANGED << obj, ctor >>

CallOverheadCosts ==
    /\ Idle
    /\ \E value \in AssetValues, rate \in AppreciationRates, years \in Years :
          /\ op' = "overhead_costs"
          /\ args' = AssetArgs(value, rate, years)
          /\ ret' = Call("overhead_costs", << value, rate, years >>)
    /\ UNCHANGED << obj, ctor >>

CallAssetAppreciation ==
    /\ Idle
    /\ \E value \in AssetValues, rate \in AppreciationRates, years \in Years :
          /\ op' = "asset_appreciation"
          /\ args' = AssetArgs(value, rate, years)
          /\ ret' = Call("asset_appreciation", << value, rate, years >>)
    /\ UNCHANGED << obj, ctor >>

\* LinearMortgage(principal, interest_rate, years)
NewLinearMortgage ==
    /\ Idle
    /\ \E principal \in Principals, interest_rate \in InterestRates, years \in Years :
          /\ obj' = Mortgage_init("Linear", principal, interest_rate, years)
          /\ ctor' = MortgageArgs(principal, interest_rate, years)
    /\ op' = "__init__"
    /\ args' = ctor'
    /\ ret' = NoReturn

\* AnnuityMortgage(principal, interest_rate, years)
NewAnnuityMortgage ==
    /\ Idle
    /\ \E principal \in Principals, interest_rate \in InterestRates, years \in Years :
          /\ obj' = Mortgage_init("Annuity", principal, interest_rate, years)
          /\ ctor' = MortgageArgs(principal, interest_rate, years)
    /\ op' = "__init__"
    /\ args' = ctor'
    /\ ret' = NoReturn

LinearMonthlyPayment ==
    /\ obj.kind = "Linear"
    /\ op' = "monthly_payment"
    /\ args' = NoArgs
    /\ ret' = Call("LinearMortgage.monthly_payment", << obj >>)
    /\ UNCHANGED << obj, ctor >>

LinearRemainingPrincipal ==
    /\ obj.kind = "Linear"
    /\ op' = "remaining_principal"
    /\ args' = NoArgs
    /\ ret' = Call("LinearMortgage.remaining_principal", << obj >>)
    /\ UNCHANGED << obj, ctor >>

AnnuityMonthlyPayment ==
    /\ obj.kind = "Annuity"
    /\ op' = "monthly_payment"
    /\ args' = NoArgs
    /\ ret' = Call("AnnuityMortgage.monthly_payment", << obj >>)
    /\ UNCHANGED << obj, ctor >>

AnnuityRemainingPrincipal ==
    /\ obj.kind = "Annuity"
    /\ op' = "remaining_principal"
    /\ args' = NoArgs
    /\ ret' = Call("AnnuityMortgage.remaining_principal", << obj >>)
    /\ UNCHANGED << obj, ctor >>

\* The caller is done with the result, or with the instance.
Release ==
    /\ ~Idle
    /\ op' = "none"
    /\ args' = NoArgs
    /\ ret' = NoReturn
    /\ obj' = NoObject
    /\ ctor' = NoArgs

Next ==
    \/ CallAnnuityMortgage
    \/ CallAnnuityRemainingPrincipal
    \/ CallLinearMortgage
    \/ CallLinearRemainingPrincipal
    \/ CallOverheadCosts
    \/ CallAssetAppreciation
    \/ NewLinearMortgage
    \/ NewAnnuityMortgage
    \/ LinearMonthlyPayment
    \/ LinearRemainingPrincipal
    \/ AnnuityMonthlyPayment
    \/ AnnuityRemainingPrincipal
    \/ Release

Spec == Init /\ [][Next]_vars

(***************************************************************************)
(* What the properties below are written with.                             *)
(***************************************************************************)
Positive(x) == x.k = "fin" /\ x.m # << >> /\ x.sgn = 1

\* the relative tolerance the specification works with, 1e-6
Tolerance == Lit(1, 1000000)

\* |x - y| <= Tolerance * |scale|
Within(x, y, scale) ==
    /\ IsFinite(x)
    /\ IsFinite(y)
    /\ FLe(Abs(Sub(x, y)), Mul(Tolerance, Abs(scale)))

Close(x, y) == Within(x, y, y)

\* a float whose value is a whole number
IsWhole(x) == x.k = "fin" /\ (x.e >= 0 \/ ~BLowBits(x.m, -x.e))

Increasing(s) == \A i \in 1..(Len(s) - 1) : FLt(s[i], s[i + 1])

Decreasing(s) == \A i \in 1..(Len(s) - 1) : FLt(s[i + 1], s[i])

Constant(s) == \A i \in 1..Len(s) : s[i] = s[1]

\* The textbook amortisation of a loan at the rate r per period: the level
\* payment that repays principal in n periods, and the balances it leaves.
AmortPayment(principal, r, n) ==
    IF IsZero(r) THEN Div(principal, Float(n))
    ELSE LET t == Pow(Add(Float(1), r), n)
         IN  Div(Mul(Mul(principal, r), t), Sub(t, Float(1)))

\* the balances after periods lo..hi, from the balance bal before period lo:
\* a period takes the payment less the interest on the balance off it
RECURSIVE AmortRange(_, _, _, _, _)
AmortRange(r, payment, lo, hi, bal) ==
    IF lo = hi THEN << Sub(bal, Sub(payment, Mul(bal, r))) >>
    ELSE LET mid == (lo + hi) \div 2
             L   == AmortRange(r, payment, lo, mid, bal)
         IN  L \o AmortRange(r, payment, mid + 1, hi, L[Len(L)])

\* entry k + 1 is the balance after k periods, k = 0 .. n
AmortBalances(principal, r, n) ==
    << principal >> \o AmortRange(r, AmortPayment(principal, r, n), 1, n, principal)

\* value, value * f, value * f^2, ... by repeated multiplication
RECURSIVE CompoundRange(_, _, _, _)
CompoundRange(f, lo, hi, prev) ==
    IF lo = hi THEN << Mul(prev, f) >>
    ELSE LET mid == (lo + hi) \div 2
             L   == CompoundRange(f, lo, mid, prev)
         IN  L \o CompoundRange(f, mid + 1, hi, L[Len(L)])

Compound(value, f, n) ==
    IF n = 0 THEN << >>
    ELSE IF n = 1 THEN << value >>
    ELSE << value >> \o CompoundRange(f, 1, n - 1, value)

\* a call of a mortgage function, or of a method, with a valid MortgageSpec
ValidMortgageCall(name) ==
    /\ op = name
    /\ Positive(args.principal)
    /\ args.years > 0

ValidMethodCall(kind, name) ==
    /\ obj.kind = kind
    /\ op = name
    /\ Positive(ctor.principal)
    /\ ctor.years > 0

(***************************************************************************)
(* C1.  remaining_principal() of either variant gives at index i the       *)
(* balance before month i + 1's principal portion is applied; in           *)
(* particular entry 0 is the principal, for LinearMortgage and for         *)
(* AnnuityMortgage.  (Fails for AnnuityMortgage: its entry 0 is the        *)
(* balance after period 1.)                                                *)
(***************************************************************************)
C1_EntryZeroIsPrincipal ==
    \A kind \in {"Linear", "Annuity"} :
        ValidMethodCall(kind, "remaining_principal") =>
            /\ ret.status = "ok"
            /\ Len(ret.value) = ctor.years * MonthsPerYear
            /\ ret.value[1] = ctor.principal

(***************************************************************************)
(* C2 as written.  linear_mortgage_remaining_principal: entry 0 is the     *)
(* principal, consecutive entries differ by exactly principal/months and   *)
(* the last entry equals principal/months.                                 *)
(***************************************************************************)
C2_ExactDecrement ==
    ValidMortgageCall("linear_mortgage_remaining_principal") =>
        LET months == args.years * MonthsPerYear
            pay == Div(args.principal, Float(months))
        IN  /\ ret.status = "ok"
            /\ Len(ret.value) = months
            /\ ret.value[1] = args.principal
            /\ \A i \in 1..(months - 1) :
                   Sub(ret.value[i], ret.value[i + 1]) = pay
            /\ ret.value[months] = pay

(***************************************************************************)
(* C2 amended.  linear_mortgage_remaining_principal: entry i is the float  *)
(* principal - (principal/months) * i; entry 0 is the principal exactly;   *)
(* consecutive entries differ by principal/months, and the last entry      *)
(* equals principal/months and is above zero, within the relative          *)
(* tolerance 1e-6, and exactly so when principal/months is a whole number  *)
(* (120000 over 12 or 24 months).                                          *)
(***************************************************************************)
C2_DecrementWithinTolerance ==
    ValidMortgageCall("linear_mortgage_remaining_principal") =>
        LET months == args.years * MonthsPerYear
            pay == Div(args.principal, Float(months))
            exact == IsWhole(pay) /\ Mul(pay, Float(months)) = args.principal
        IN  /\ ret.status = "ok"
            /\ Len(ret.value) = months
            /\ ret.value[1] = args.principal
            /\ \A i \in 1..months :
                   ret.value[i] = Sub(args.principal, Mul(pay, Float(i - 1)))
            /\ \A i \in 1..(months - 1) :
                   /\ Close(Sub(ret.value[i], ret.value[i + 1]), pay)
                   /\ exact => Sub(ret.value[i], ret.value[i + 1]) = pay
            /\ Close(ret.value[months], pay)
            /\ Positive(ret.value[months])
            /\ exact => ret.value[months] = pay

\* 100000 over 12 months: the decrement is principal/months only within the
\* tolerance
C2_Witness ==
    /\ op = "linear_mortgage_remaining_principal"
    /\ args.principal = Float(100000)
    /\ args.years = 1
    /\ ret.status = "ok"
    /\ Sub(ret.value[1], ret.value[2]) # Div(args.principal, Float(12))
    /\ Close(Sub(ret.value[1], ret.value[2]), Div(args.principal, Float(12)))
    /\ ret.value[12] # Div(args.principal, Float(12))

(***************************************************************************)
(* C3.  annuity_mortgage_remaining_principal: entry i is the balance that  *)
(* amortisation leaves after period i + 1 (so entry 0 is the balance after *)
(* period 1, below the principal), and the principal portions of all       *)
(* periods sum to the principal: the last entry is 0 within the tolerance. *)
(***************************************************************************)
C3_AnnuityBalanceAfterPeriod ==
    ValidMortgageCall("annuity_mortgage_remaining_principal") =>
        LET months == args.years * MonthsPerYear
            r == Div(args.interest_rate, Float(12))
            bal == AmortBalances(args.principal, r, months)
        IN  /\ ret.status = "ok"
            /\ Len(ret.value) = months
            /\ \A i \in 1..months :
                   Within(ret.value[i], bal[i + 1], args.principal)
            /\ FLt(ret.value[1], args.principal)
            /\ Within(ret.value[months], Zero, args.principal)

C3_Witness ==
    /\ op = "annuity_mortgage_remaining_principal"
    /\ args.principal = Float(100000)
    /\ Positive(args.interest_rate)
    /\ args.years = 2
    /\ ret.status = "ok"
    /\ Len(ret.value) = 24
    /\ FLt(ret.value[1], args.principal)
    /\ FLt(ret.value[24], Float(1))

(***************************************************************************)
(* C4 as written.  annuity_mortgage: for every valid MortgageSpec, with    *)
(* interest_rate in [0, 1), the net payment rises: each entry is greater   *)
(* than the one before.                                                    *)
(***************************************************************************)
C4_NetPaymentAlwaysRises ==
    ValidMortgageCall("annuity_mortgage") =>
        /\ ret.status = "ok"
        /\ Len(ret.value) = args.years * MonthsPerYear
        /\ Increasing(ret.value)

(***************************************************************************)
(* C4 amended.  annuity_mortgage: the net payment of period k is           *)
(* P - INTEREST_DEDUCTIBLE * I_k, with one gross payment P for all periods *)
(* and I_k the monthly rate times the balance before period k; it rises    *)
(* from each period to the next when interest_rate > 0, and is the same    *)
(* in every period (P = principal/months) when interest_rate = 0.          *)
(***************************************************************************)
C4_NetPaymentRisesWithInterest ==
    ValidMortgageCall("annuity_mortgage") =>
        LET months == args.years * MonthsPerYear
            r == Div(args.interest_rate, Float(12))
            P == AmortPayment(args.principal, r, months)
            bal == AmortBalances(args.principal, r, months)
        IN  /\ ret.status = "ok"
            /\ Len(ret.value) = months
            /\ \A k \in 1..months :
                   Within(ret.value[k],
                          Sub(P, Mul(INTEREST_DEDUCTIBLE, Mul(r, bal[k]))), P)
            /\ Positive(args.interest_rate) => Increasing(ret.value)
            /\ IsZero(args.interest_rate) =>
                   /\ Constant(ret.value)
                   /\ Close(ret.value[1], Div(args.principal, Float(months)))

C4_Witness ==
    /\ op = "annuity_mortgage"
    /\ args.principal = Float(100000)
    /\ Positive(args.interest_rate)
    /\ args.years = 2
    /\ ret.status = "ok"
    /\ FLt(ret.value[1], ret.value[2])
    /\ FLt(ret.value[23], ret.value[24])

(***************************************************************************)
(* C5 as written.  linear_mortgage: for every valid MortgageSpec, with     *)
(* interest_rate in [0, 1), the interest portion and the net payment both  *)
(* strictly decrease from each month to the next.                          *)
(***************************************************************************)
C5_PaymentAlwaysDecreases ==
    ValidMortgageCall("linear_mortgage") =>
        LET months == args.years * MonthsPerYear
            r == Div(args.interest_rate, Float(12))
            pay == Div(args.principal, Float(months))
            interest == [i \in 1..months |->
                            Mul(Sub(args.principal, Mul(pay, Float(i - 1))), r)]
        IN  /\ ret.status = "ok"
            /\ Len(ret.value) = months
            /\ Decreasing(interest)
            /\ Decreasing(ret.value)

(***************************************************************************)
(* C5 amended.  linear_mortgage: entry i is                                *)
(* principal/months + interest_i - INTEREST_DEDUCTIBLE * interest_i with   *)
(* interest_i the linear remaining principal at i times interest_rate/12;  *)
(* the interest portion and the net payment strictly decrease from month   *)
(* to month when interest_rate > 0; when interest_rate = 0 the interest is *)
(* 0 and the net payment is principal/months in every month.               *)
(***************************************************************************)
C5_PaymentDecreasesWithInterest ==
    ValidMortgageCall("linear_mortgage") =>
        LET months == args.years * MonthsPerYear
            r == Div(args.interest_rate, Float(12))
            pay == Div(args.principal, Float(months))
            interest == [i \in 1..months |->
                            Mul(Sub(args.principal, Mul(pay, Float(i - 1))), r)]
        IN  /\ ret.status = "ok"
            /\ Len(ret.value) = months
            /\ \A i \in 1..months :
                   ret.value[i] =
                       Sub(Add(pay, interest[i]),
                           Mul(INTEREST_DEDUCTIBLE, interest[i]))
            /\ Positive(args.interest_rate) =>
                   Decreasing(interest) /\ Decreasing(ret.value)
            /\ IsZero(args.interest_rate) =>
                   /\ \A i \in 1..months : IsZero(interest[i])
                   /\ \A i \in 1..months : ret.value[i] = pay

C5_Witness ==
    /\ op = "linear_mortgage"
    /\ args.principal = Float(100000)
    /\ Positive(args.interest_rate)
    /\ args.years = 2
    /\ ret.status = "ok"
    /\ FLt(ret.value[2], ret.value[1])
    /\ FLt(ret.value[24], ret.value[23])

(***************************************************************************)
(* C6.  For principal > 0, interest_rate >= 0 and years > 0 (any asset     *)
(* value and appreciation rate), each of the six schedule functions        *)
(* returns a sequence of exactly years * 12 entries.                       *)
(***************************************************************************)
C6_SchedulesHaveYearsTimesTwelveEntries ==
    /\ \A name \in {"annuity_mortgage", "annuity_mortgage_remaining_principal",
                    "linear_mortgage", "linear_mortgage_remaining_principal"} :
           ValidMortgageCall(name) =>
               ret.status = "ok" /\ Len(ret.value) = args.years * 12
    /\ \A name \in {"overhead_costs", "asset_appreciation"} :
           (op = name /\ args.years > 0) =>
               ret.status = "ok" /\ Len(ret.value) = args.years * 12

C6_Witness ==
    /\ op = "annuity_mortgage_remaining_principal"
    /\ Positive(args.principal)
    /\ args.years = 2
    /\ ret.status = "ok"
    /\ Len(ret.value) = 24

C8_AssetCompoundsMonthly ==
    op = "asset_appreciation" =>
        LET months == args.years * MonthsPerYear
            value == args.initial_asset_value
            rate == args.yearly_asset_appreciation
            factor == Add(Float(1), Div(rate, Float(12)))
            compound == Compound(value, factor, months)
            yearly == Mul(value, Add(Float(1), rate))
        IN  /\ ret.status = "ok"
            /\ Len(ret.value) = months
            /\ months > 0 => ret.value[1] = value
            /\ \A i \in 1..months : Close(ret.value[i], compound[i])
            /\ args.years >= 2 =>
                   /\ FLe(yearly, ret.value[13])
                   /\ FLe(Sub(ret.value[13], yearly), Mul(Mul(rate, rate), value))

C8_Witness ==
    /\ op = "asset_appreciation"
    /\ args.initial_asset_value = Float(400000)
    /\ Positive(args.yearly_asset_appreciation)
    /\ args.years = 2
    /\ ret.status = "ok"
    /\ ret.value[1] = Float(400000)
    /\ FLt(Float(420000), ret.value[13])
    /\ FLt(ret.value[13], Float(421000))

(***************************************************************************)
(* C9.  A LinearMortgage or AnnuityMortgage instance holds the principal,  *)
(* interest_rate and years it was constructed from, and nothing else,      *)
(* whatever methods were called on it; and every monthly_payment() and     *)
(* remaining_principal() returns what the corresponding schedule function  *)
(* returns for the constructor arguments.                                  *)
(***************************************************************************)
C9_MethodsReadOnlyConstructorArguments ==
    obj # NoObject =>
        /\ DOMAIN obj = {"kind", "principal", "interest_rate", "years"}
        /\ obj.principal = ctor.principal
        /\ obj.interest_rate = ctor.interest_rate
        /\ obj.years = ctor.years
        /\ (obj.kind = "Linear" /\ op = "monthly_payment") =>
               ret = linear_mortgage(ctor.principal, ctor.interest_rate, ctor.years)
        /\ (obj.kind = "Linear" /\ op = "remaining_principal") =>
               ret = linear_mortgage_remaining_principal(ctor.principal, ctor.years)
        /\ (obj.kind = "Annuity" /\ op = "monthly_payment") =>
               ret = annuity_mortgage(ctor.principal, ctor.interest_rate, ctor.years)
        /\ (obj.kind = "Annuity" /\ op = "remaining_principal") =>
               ret = annuity_mortgage_remaining_principal(
                         ctor.principal, ctor.interest_rate, ctor.years)

C9_Witness ==
    /\ obj.kind = "Annuity"
    /\ op = "monthly_payment"
    /\ ctor.principal = Float(120000)
    /\ Positive(ctor.interest_rate)
    /\ ctor.years = 2
    /\ ret.status = "ok"
    /\ Len(ret.value) = 24
    /\ obj.years = 2

(***************************************************************************)
(* C10.  No operation ends in an error: with years = 0 or principal <= 0   *)
(* each of the six schedule functions, and each method of the two Mortgage *)
(* variants, completes and returns a sequence, which is empty when         *)
(* months = 0.  (Fails for linear_mortgage,                                *)
(* linear_mortgage_remaining_principal and the LinearMortgage methods at   *)
(* years = 0: principal / months raises ZeroDivisionError.)                *)
(***************************************************************************)
C10_NoOperationRaises ==
    ret # NoReturn =>
        /\ ret.status = "ok"
        /\ (IF obj = NoObject THEN args.years ELSE ctor.years) = 0 =>
               ret.value = << >>

=============================================================================
